---- MODULE Spec2Model ----
(***************************************************************************)
(* Model of app.py: the Flask handlers that answer range queries over the  *)
(* measurement table (station, date, prcp, tobs) of hawaii.sqlite.         *)
(*                                                                         *)
(* Strings are sequences of ASCII codes, so that the regular expression,   *)
(* Python's string comparison and SQLite's TEXT comparison are computed on *)
(* characters.  Temperatures and precipitation amounts are IEEE doubles,   *)
(* kept as an exponent and a 53-bit mantissa split into two limbs, so that *)
(* SQLite's avg() rounds as it does in the program.                        *)
(***************************************************************************)
EXTENDS Integers, Sequences, FiniteSets

(***************************************************************************)
(* Bounds of the model.                                                    *)
(***************************************************************************)
\* Largest number of rows in an enumerated measurement table.
MaxRows == 3
\* Stations and days of the station-major table that is long enough for the
\* sort to partition.
BigStations == 3
BigDays == 6

\* SQL NULL (Python's None) and the NaN a float64 column of a frame holds in
\* its place: two values outside the doubles
\* (every double of the model has hi >= 2^25).
NULL == [e |-> 0, hi |-> 0, lo |-> 0]
NaN  == [e |-> 1, hi |-> 0, lo |-> 0]

(***************************************************************************)
(* Strings.                                                                *)
(***************************************************************************)
Hyphen == <<45>>
Space  == <<32>>
Colon  == <<58>>
Dot    == <<46>>
LowerX == <<120>>

IsDigit(c) == c >= 48 /\ c <= 57

\* n written with exactly w decimal digits (the %0wd of a format string).
RECURSIVE ZeroPad(_, _)
ZeroPad(n, w) ==
    IF w = 0 THEN <<>> ELSE Append(ZeroPad(n \div 10, w - 1), 48 + (n % 10))

\* The integer written by a sequence of digits.
RECURSIVE DigitsValue(_)
DigitsValue(s) ==
    IF s = <<>> THEN 0
    ELSE 10 * DigitsValue(SubSeq(s, 1, Len(s) - 1)) + (s[Len(s)] - 48)

\* Python's str < str and SQLite's BINARY collation on TEXT: the first
\* differing character decides, and a proper prefix is the smaller string.
RECURSIVE StrLess(_, _)
StrLess(a, b) ==
    IF b = <<>> THEN FALSE
    ELSE IF a = <<>> THEN TRUE
    ELSE IF Head(a) # Head(b) THEN Head(a) < Head(b)
    ELSE StrLess(Tail(a), Tail(b))

StrLessEq(a, b) == a = b \/ StrLess(a, b)
StrGreater(a, b) == StrLess(b, a)
StrGreaterEq(a, b) == a = b \/ StrLess(b, a)

\* A faulty pattern, "^[0-9]{4}-": only the year and its hyphen are checked.
re_match_year_only(s) ==
    /\ Len(s) >= 5
    /\ \A i \in {1, 2, 3, 4} : IsDigit(s[i])
    /\ s[5] = 45

\* re.match("^[0-9]{4}-[0-9]{2}-[0-9]{2}", s): the pattern is anchored at the
\* start only, whatever follows the tenth character is accepted.
re_match(s) ==
    /\ Len(s) >= 10
    /\ \A i \in {1, 2, 3, 4, 6, 7, 9, 10} : IsDigit(s[i])
    /\ s[5] = 45
    /\ s[8] = 45

(***************************************************************************)
(* Calendar arithmetic of datetime: strptime, toordinal, fromordinal.      *)
(***************************************************************************)
\* A "%Y-%m-%d" date string.
DateStr(y, m, d) == ZeroPad(y, 4) \o Hyphen \o ZeroPad(m, 2) \o Hyphen \o ZeroPad(d, 2)

\* dt.datetime.strptime(s, "%Y-%m-%d") of a ten character date string.
strptime(s) ==
    [year  |-> DigitsValue(SubSeq(s, 1, 4)),
     month |-> DigitsValue(SubSeq(s, 6, 7)),
     day   |-> DigitsValue(SubSeq(s, 9, 10))]

is_leap(y) == y % 4 = 0 /\ (y % 100 # 0 \/ y % 400 = 0)

DAYS_IN_MONTH == <<31, 28, 31, 30, 31, 30, 31, 31, 30, 31, 30, 31>>

days_in_month(y, m) == IF m = 2 /\ is_leap(y) THEN 29 ELSE DAYS_IN_MONTH[m]

days_before_year(y) ==
    LET y1 == y - 1 IN y1 * 365 + (y1 \div 4) - (y1 \div 100) + (y1 \div 400)

RECURSIVE days_before_month(_, _)
days_before_month(y, m) ==
    IF m = 1 THEN 0 ELSE days_before_month(y, m - 1) + days_in_month(y, m - 1)

ymd2ord(t) == days_before_year(t.year) + days_before_month(t.year, t.month) + t.day

DAYS_BEFORE_MONTH == <<0, 31, 59, 90, 120, 151, 181, 212, 243, 273, 304, 334>>

\* Days in 400, 100 and 4 consecutive years.
DI400Y == days_before_year(401)
DI100Y == days_before_year(101)
DI4Y   == days_before_year(5)

\* The date of an ordinal, by the 400, 100, 4 and 1 year cycles.
ord2ymd(ordinal) ==
    LET n0   == ordinal - 1
        n400 == n0 \div DI400Y
        r400 == n0 % DI400Y
        n100 == r400 \div DI100Y
        r100 == r400 % DI100Y
        n4   == r100 \div DI4Y
        r4   == r100 % DI4Y
        n1   == r4 \div 365
        n    == r4 % 365
        year == n400 * 400 + 1 + n100 * 100 + n4 * 4 + n1
        leapyear == n1 = 3 /\ (n4 # 24 \/ n100 = 3)
        month0 == (n + 50) \div 32
        preceding0 == DAYS_BEFORE_MONTH[month0]
                          + (IF month0 > 2 /\ leapyear THEN 1 ELSE 0)
        month == IF preceding0 > n THEN month0 - 1 ELSE month0
        preceding ==
            IF preceding0 > n
            THEN preceding0 - (DAYS_IN_MONTH[month]
                                 + (IF month = 2 /\ leapyear THEN 1 ELSE 0))
            ELSE preceding0
    IN IF n1 = 4 \/ n100 = 4
       THEN [year |-> year - 1, month |-> 12, day |-> 31]
       ELSE [year |-> year, month |-> month, day |-> n - preceding + 1]

\* The bound value of a datetime compared with a TEXT column: the date,
\* a space and the time of day, midnight here.
DateTimeStr(t) ==
    DateStr(t.year, t.month, t.day) \o Space
        \o ZeroPad(0, 2) \o Colon \o ZeroPad(0, 2) \o Colon \o ZeroPad(0, 2)
        \o Dot \o ZeroPad(0, 6)

\* strptime(latest_date, "%Y-%m-%d") - timedelta(days=365), as it is bound.
last_year_of(latest_date) == DateTimeStr(ord2ymd(ymd2ord(strptime(latest_date)) - 365))

(***************************************************************************)
(* IEEE double arithmetic of SQLite's REAL values.  A positive double is   *)
(* (hi * 2^27 + lo) * 2^e with 2^25 <= hi < 2^26 and 0 <= lo < 2^27: a     *)
(* normalised 53-bit mantissa in two limbs.                                *)
(***************************************************************************)
Limb == 2^27
HiMin == 2^25
HiMax == 2^26

Pow2(k) == 2^k

Dbl(e, hi, lo) == [e |-> e, hi |-> hi, lo |-> lo]

\* a < b and a <= b on positive doubles.
fl_lt(a, b) ==
    \/ a.e < b.e
    \/ a.e = b.e /\ a.hi < b.hi
    \/ a.e = b.e /\ a.hi = b.hi /\ a.lo < b.lo

fl_le(a, b) == a = b \/ fl_lt(a, b)

\* The mantissa plus one unit in the last place, renormalised on overflow.
fl_next(e, hi, lo) ==
    IF lo + 1 < Limb THEN Dbl(e, hi, lo + 1)
    ELSE IF hi + 1 < HiMax THEN Dbl(e, hi + 1, 0)
    ELSE Dbl(e + 1, HiMin, 0)

\* Round to nearest, ties to even: ext is the limb below the mantissa and
\* sticky tells that bits below ext were lost.
fl_round(e, hi, lo, ext, sticky) ==
    IF \/ ext > HiMax
       \/ ext = HiMax /\ sticky
       \/ ext = HiMax /\ ~sticky /\ lo % 2 = 1
    THEN fl_next(e, hi, lo)
    ELSE Dbl(e, hi, lo)

\* y's mantissa shifted right by d bits, as three limbs and a sticky bit.
fl_shift(y, d) ==
    IF d = 0 THEN [hi |-> y.hi, lo |-> y.lo, ext |-> 0, sticky |-> FALSE]
    ELSE IF d < 27
    THEN [hi |-> y.hi \div Pow2(d),
          lo |-> (y.hi % Pow2(d)) * Pow2(27 - d) + (y.lo \div Pow2(d)),
          ext |-> (y.lo % Pow2(d)) * Pow2(27 - d),
          sticky |-> FALSE]
    ELSE IF d < 54
    THEN [hi |-> 0,
          lo |-> y.hi \div Pow2(d - 27),
          ext |-> (y.hi % Pow2(d - 27)) * Pow2(54 - d) + (y.lo \div Pow2(d - 27)),
          sticky |-> y.lo % Pow2(d - 27) # 0]
    ELSE [hi |-> 0, lo |-> 0, ext |-> 0, sticky |-> TRUE]

\* a + b in double precision, for positive a and b.
fl_add(a, b) ==
    LET x == IF a.e >= b.e THEN a ELSE b
        y == IF a.e >= b.e THEN b ELSE a
        s == fl_shift(y, x.e - y.e)
        lo0 == x.lo + s.lo
        lo1 == lo0 % Limb
        hi1 == x.hi + s.hi + (lo0 \div Limb)
    IN IF hi1 < HiMax
       THEN fl_round(x.e, hi1, lo1, s.ext, s.sticky)
       ELSE fl_round(x.e + 1, hi1 \div 2,
                     (hi1 % 2) * HiMax + (lo1 \div 2),
                     (lo1 % 2) * HiMax + (s.ext \div 2),
                     s.sticky \/ s.ext % 2 = 1)

\* The quotient and remainder of (x.hi * 2^27 + x.lo) * 2^k by n.
fl_longdiv(x, n, k) ==
    LET lo1 == (x.lo % Pow2(27 - k)) * Pow2(k)
        hi1 == x.hi * Pow2(k) + (x.lo \div Pow2(27 - k))
        t   == (hi1 % n) * Limb + lo1
    IN [hi |-> hi1 \div n, lo |-> t \div n, r |-> t % n]

\* The number of bits of n.
RECURSIVE BitLen(_)
BitLen(n) == IF n = 0 THEN 0 ELSE 1 + BitLen(n \div 2)

\* x / (double)n in double precision, for positive x and 1 <= n <= 15.
fl_div(x, n) ==
    LET j  == BitLen(n)
        q0 == fl_longdiv(x, n, j - 1)
        k  == IF q0.hi >= HiMin THEN j - 1 ELSE j
        q  == IF q0.hi >= HiMin THEN q0 ELSE fl_longdiv(x, n, j)
    IN IF 2 * q.r > n \/ (2 * q.r = n /\ q.lo % 2 = 1)
       THEN fl_next(x.e - k, q.hi, q.lo)
       ELSE Dbl(x.e - k, q.hi, q.lo)

\* Whether a double is a whole number (no bit of the mantissa below 2^0).
is_whole(x) ==
    \/ x.e >= 0
    \/ x.e > -27 /\ x.lo % Pow2(-x.e) = 0
    \/ x.e <= -27 /\ x.e > -53 /\ x.lo = 0 /\ x.hi % Pow2(-x.e - 27) = 0

(***************************************************************************)
(* The measurement table and the queries the handlers run on it.  A table  *)
(* is the sequence of its rows in the order a full scan returns them; a     *)
(* Query.filter is SelectSeq, which keeps that order.                      *)
(***************************************************************************)
Measurement(station, date, prcp, tobs) ==
    [station |-> station, date |-> date, prcp |-> prcp, tobs |-> tobs]

\* The non-NULL values of the tobs column, in scan order.
RECURSIVE tobs_values(_)
tobs_values(rows) ==
    IF rows = <<>> THEN <<>>
    ELSE IF Head(rows).tobs = NULL THEN tobs_values(Tail(rows))
    ELSE <<Head(rows).tobs>> \o tobs_values(Tail(rows))

\* func.min and func.max of a non-empty sequence of doubles.
RECURSIVE func_min(_)
func_min(vals) ==
    IF Len(vals) = 1 THEN vals[1]
    ELSE LET m == func_min(Tail(vals))
         IN IF fl_lt(vals[1], m) THEN vals[1] ELSE m

RECURSIVE func_max(_)
func_max(vals) ==
    IF Len(vals) = 1 THEN vals[1]
    ELSE LET m == func_max(Tail(vals))
         IN IF fl_lt(m, vals[1]) THEN vals[1] ELSE m

\* The running sum of avg(): each value is added to the total in scan order.
RECURSIVE func_sum(_)
func_sum(vals) ==
    IF Len(vals) = 1 THEN vals[1]
    ELSE fl_add(func_sum(SubSeq(vals, 1, Len(vals) - 1)), vals[Len(vals)])

\* func.avg: the sum divided by the number of non-NULL values.
func_avg(vals) == fl_div(func_sum(vals), Len(vals))

\* A faulty aggregate: the sum is divided by the number of rows, NULL
\* temperatures included.
query_min_avg_max_over_rows(rows) ==
    LET vals == tobs_values(rows)
    IN IF vals = <<>> THEN << <<NULL, NULL, NULL>> >>
       ELSE << <<func_min(vals), fl_div(func_sum(vals), Len(rows)), func_max(vals)>> >>

\* query(func.min(tobs), func.avg(tobs), func.max(tobs)) over the filtered
\* rows: always one result row, of NULLs when no value was aggregated.
query_min_avg_max(rows) ==
    LET vals == tobs_values(rows)
    IN IF vals = <<>> THEN << <<NULL, NULL, NULL>> >>
       ELSE << <<func_min(vals), func_avg(vals), func_max(vals)>> >>

\* calc_temps(start_date, end_date=0); NoEnd stands for the default 0.
NoEnd == <<>>

\* A faulty calc_temps: the row of NULLs is returned as it is.
calc_temps_keep_nulls(database, start_date, end_date) ==
    IF end_date = NoEnd
    THEN query_min_avg_max(
             SelectSeq(database, LAMBDA m : StrGreaterEq(m.date, start_date)))
    ELSE query_min_avg_max(
             SelectSeq(SelectSeq(database, LAMBDA m : StrGreaterEq(m.date, start_date)),
                    LAMBDA m : StrLessEq(m.date, end_date)))

calc_temps(database, start_date, end_date) ==
    LET result ==
            IF end_date = NoEnd
            THEN query_min_avg_max(
                     SelectSeq(database, LAMBDA m : StrGreaterEq(m.date, start_date)))
            ELSE query_min_avg_max(
                     SelectSeq(SelectSeq(database, LAMBDA m : StrGreaterEq(m.date, start_date)),
                            LAMBDA m : StrLessEq(m.date, end_date)))
    IN IF result = << <<NULL, NULL, NULL>> >> THEN <<>> ELSE result

\* func.max(Measurement.date) of a non-empty table.
RECURSIVE func_max_date(_)
func_max_date(rows) ==
    IF Len(rows) = 1 THEN rows[1].date
    ELSE LET m == func_max_date(Tail(rows))
         IN IF StrLess(m, rows[1].date) THEN rows[1].date ELSE m

(***************************************************************************)
(* Responses.  A text response is an f-string: its template and the values *)
(* put into it.  A JSON response carries the serialised object.            *)
(***************************************************************************)
text(template, args) ==
    [mimetype |-> "text/html", template |-> template, args |-> args, json |-> <<>>]

jsonify(obj) ==
    [mimetype |-> "application/json", template |-> "", args |-> <<>>, json |-> obj]

\* The items of a dict as jsonify writes them, sorted by key (JSON_SORT_KEYS
\* is on by default); items of equal key keep their order.
RECURSIVE sort_keys(_)
sort_keys(items) ==
    IF items = <<>> THEN <<>>
    ELSE LET rest == sort_keys(SubSeq(items, 1, Len(items) - 1))
             x    == items[Len(items)]
             k    == Cardinality({i \in 1 .. Len(rest) : ~StrLess(x[1], rest[i][1])})
         IN SubSeq(rest, 1, k) \o <<x>> \o SubSeq(rest, k + 1, Len(rest))

INVALID_START ==
    "Your search of '{start}' is not in the correct format.<br/>            Please, search for a start date in the form yyyy-mm-dd (year-month-day)."

NO_MATCH_START ==
    "Your search of {start} did not match any records.            Please, search for an earlier date.<br/>"

INVALID_START_END ==
    "Your search beginning with '{start}' and ending with '{end}'            is not in the correct format.<br/>Please, verify that both start and end dates            are in the form yyyy-mm-dd (year-month-day)."

NO_MATCH_START_END ==
    "Your search beginning with '{start}' and ending with '{end}'            did not match any records.  Please, search for a different date range.<br/>"

(***************************************************************************)
(* /api/v1.0/<start> and /api/v1.0/<start>/<end>                           *)
(***************************************************************************)
\* A faulty handler: the result is serialised whether it is empty or not.
calc_temps_start_always_json(database, start) ==
    IF ~re_match(start) THEN text(INVALID_START, <<start>>)
    ELSE jsonify(calc_temps(database, start, NoEnd))

calc_temps_start(database, start) ==
    IF ~re_match(start) THEN text(INVALID_START, <<start>>)
    ELSE LET result == calc_temps(database, start, NoEnd)
         IN IF result = <<>> THEN text(NO_MATCH_START, <<start>>)
            ELSE jsonify(result)

\* A faulty handler: the dates are passed on in the order they were given.
calc_temps_start_end_unordered(database, start, end) ==
    IF ~re_match(start) \/ ~re_match(end)
    THEN text(INVALID_START_END, <<start, end>>)
    ELSE LET result == calc_temps(database, start, end)
         IN IF result = <<>> THEN text(NO_MATCH_START_END, <<start, end>>)
            ELSE jsonify(result)

calc_temps_start_end(database, start, end) ==
    IF ~re_match(start) \/ ~re_match(end)
    THEN text(INVALID_START_END, <<start, end>>)
    ELSE LET result == IF StrGreater(start, end)
                       THEN calc_temps(database, end, start)
                       ELSE calc_temps(database, start, end)
         IN IF result = <<>> THEN text(NO_MATCH_START_END, <<start, end>>)
            ELSE jsonify(result)

(***************************************************************************)
(* DataFrame.sort_values("Date"): numpy's argsort of the column with the   *)
(* default kind, quicksort.  tosort is the permutation being sorted, v the *)
(* column; positions count from 1.  Ranges of at most SMALL_QUICKSORT + 1  *)
(* entries are insertion sorted, longer ones are partitioned around the    *)
(* median of three.  (The heapsort fallback needs more nested partitions   *)
(* than twice the bit length of the row count and is not reached by a      *)
(* table of a few dozen rows.)                                             *)
(***************************************************************************)
SMALL_QUICKSORT == 16

INTP_SWAP(tosort, i, j) == [tosort EXCEPT ![i] = tosort[j], ![j] = tosort[i]]

\* do ++pi while v[*pi] < vp, entered with pi already advanced once.
RECURSIVE scan_up(_, _, _, _)
scan_up(v, tosort, pi, vp) ==
    IF StrLess(v[tosort[pi]], vp) THEN scan_up(v, tosort, pi + 1, vp) ELSE pi

\* do --pj while vp < v[*pj], entered with pj already moved once.
RECURSIVE scan_down(_, _, _, _)
scan_down(v, tosort, pj, vp) ==
    IF StrLess(vp, v[tosort[pj]]) THEN scan_down(v, tosort, pj - 1, vp) ELSE pj

\* The for (;;) loop of the partition: entries left of pi are not above the
\* pivot, entries right of pj are not below it.
RECURSIVE partition_loop(_, _, _, _, _)
partition_loop(v, tosort, pi, pj, vp) ==
    LET i == scan_up(v, tosort, pi + 1, vp)
        j == scan_down(v, tosort, pj - 1, vp)
    IN IF i >= j THEN [tosort |-> tosort, pi |-> i]
       ELSE partition_loop(v, INTP_SWAP(tosort, i, j), i, j, vp)

\* One partition of tosort[pl .. pr]: the final place pi of the pivot and
\* the permutation after it.
partition(v, tosort, pl, pr) ==
    LET pm == pl + ((pr - pl) \div 2)
        t1 == IF StrLess(v[tosort[pm]], v[tosort[pl]])
              THEN INTP_SWAP(tosort, pm, pl) ELSE tosort
        t2 == IF StrLess(v[t1[pr]], v[t1[pm]]) THEN INTP_SWAP(t1, pr, pm) ELSE t1
        t3 == IF StrLess(v[t2[pm]], v[t2[pl]]) THEN INTP_SWAP(t2, pm, pl) ELSE t2
        vp == v[t3[pm]]
        t4 == INTP_SWAP(t3, pm, pr - 1)
        lp == partition_loop(v, t4, pl, pr - 1, vp)
    IN [tosort |-> INTP_SWAP(lp.tosort, lp.pi, pr - 1), pi |-> lp.pi]

\* while (pj > pl && vp < v[*pk]) *pj-- = *pk--;  then *pj = vi.
RECURSIVE insert_down(_, _, _, _, _)
insert_down(v, tosort, pl, pj, vi) ==
    IF pj > pl /\ StrLess(v[vi], v[tosort[pj - 1]])
    THEN insert_down(v, [tosort EXCEPT ![pj] = tosort[pj - 1]], pl, pj - 1, vi)
    ELSE [tosort EXCEPT ![pj] = vi]

\* for (pi = pl + 1; pi <= pr; ++pi): insertion sort of tosort[pl .. pr].
RECURSIVE insertion_sort(_, _, _, _, _)
insertion_sort(v, tosort, pl, pi, pr) ==
    IF pi > pr THEN tosort
    ELSE insertion_sort(v, insert_down(v, tosort, pl, pi, tosort[pi]), pl, pi + 1, pr)

\* The outer loop: partition while the range is long, pushing the larger
\* part on the stack, then insertion sort and pop.
RECURSIVE aquicksort_loop(_, _, _, _, _)
aquicksort_loop(v, tosort, pl, pr, stack) ==
    IF pr - pl > SMALL_QUICKSORT
    THEN LET p == partition(v, tosort, pl, pr)
         IN IF p.pi - pl < pr - p.pi
            THEN aquicksort_loop(v, p.tosort, pl, p.pi - 1,
                                 Append(stack, <<p.pi + 1, pr>>))
            ELSE aquicksort_loop(v, p.tosort, p.pi + 1, pr,
                                 Append(stack, <<pl, p.pi - 1>>))
    ELSE LET sorted == insertion_sort(v, tosort, pl, pl + 1, pr)
         IN IF stack = <<>> THEN sorted
            ELSE aquicksort_loop(v, sorted, stack[Len(stack)][1], stack[Len(stack)][2],
                                 SubSeq(stack, 1, Len(stack) - 1))

\* argsort(kind="quicksort") of a column: the positions in sorted order.
argsort(v) ==
    IF v = <<>> THEN <<>>
    ELSE aquicksort_loop(v, [i \in 1 .. Len(v) |-> i], 1, Len(v), <<>>)

\* pd.DataFrame(last_year_records, columns=["Date", "Precipitation"]): the
\* type of the Precipitation column is inferred from its values.  With an
\* amount among them the column is float64 and a missing amount is NaN; a
\* column of missing amounts only stays an object column and keeps None.
DataFrame(records) ==
    IF \A i \in 1 .. Len(records) : records[i][2] = NULL THEN records
    ELSE [i \in 1 .. Len(records) |->
             <<records[i][1], IF records[i][2] = NULL THEN NaN ELSE records[i][2]>>]

\* prcp_df.sort_values("Date") of a frame of (Date, Precipitation) records.
sort_values(records) ==
    LET indexer == argsort([i \in 1 .. Len(records) |-> records[i][1]])
    IN [i \in 1 .. Len(records) |-> records[indexer[i]]]

\* A faulty conversion: every record becomes an item, repeated dates too.
to_dict_records(records) ==
    [i \in 1 .. Len(records) |->
        <<records[i][1], records[i][2]>>]

\* set_index("Date").to_dict() of the one remaining column: a dict built
\* record by record, a repeated key keeps its place and takes the new value;
\* the values are those of the frame.  The dict is the sequence of its
\* items in insertion order.
RECURSIVE to_dict(_)
to_dict(records) ==
    IF records = <<>> THEN <<>>
    ELSE LET d    == to_dict(SubSeq(records, 1, Len(records) - 1))
             last == records[Len(records)]
             item == <<last[1], last[2]>>
         IN IF \E i \in 1 .. Len(d) : d[i][1] = last[1]
            THEN [i \in 1 .. Len(d) |-> IF d[i][1] = last[1] THEN item ELSE d[i]]
            ELSE Append(d, item)

(***************************************************************************)
(* /api/v1.0/precipitation, /api/v1.0/tobs and /api/v1.0/stations          *)
(***************************************************************************)
\* The rows of the last 365 days: date >= last_year, where last_year is
\* bound as a datetime.
last_year_rows(database) ==
    LET latest_date == func_max_date(database)
        last_year   == last_year_of(latest_date)
    IN SelectSeq(database, LAMBDA m : StrGreaterEq(m.date, last_year))

precipitation(database) ==
    LET rows == last_year_rows(database)
        last_year_records == [i \in 1 .. Len(rows) |-> <<rows[i].date, rows[i].prcp>>]
        prcp_df == sort_values(DataFrame(last_year_records))
    IN jsonify([Precipitation |-> sort_keys(to_dict(prcp_df))])

tobs(database) ==
    LET rows == last_year_rows(database)
        tobs_last_year == [i \in 1 .. Len(rows) |-> <<rows[i].tobs>>]
    IN jsonify(tobs_last_year)

\* A faulty query: SELECT station without DISTINCT.
distinct_missing(column) == column

\* SELECT DISTINCT station: each station once, where a scan first meets it.
RECURSIVE distinct(_)
distinct(column) ==
    IF column = <<>> THEN <<>>
    ELSE LET d == distinct(SubSeq(column, 1, Len(column) - 1))
             x == column[Len(column)]
         IN IF \E i \in 1 .. Len(d) : d[i] = x THEN d ELSE Append(d, x)

stations(database) ==
    LET station_names == distinct([i \in 1 .. Len(database) |-> <<database[i].station>>])
    IN jsonify(station_names)

(***************************************************************************)
(* The data the tables are drawn from.                                     *)
(***************************************************************************)
\* Station identifiers of the station table.
STATIONS ==
    <<"USC00519397", "USC00513117", "USC00514830", "USC00517948", "USC00518838",
      "USC00519523", "USC00519281", "USC00511918", "USC00516128">>

station_at(i) == STATIONS[((i - 1) % Len(STATIONS)) + 1]

\* Temperatures 60.2, 65.0 and 68.0 and amounts 0.5 and 0.8 as doubles.
T60_2 == Dbl(-47, 63124275, 26843546)
T65   == Dbl(-46, 34078720, 0)
T68   == Dbl(-46, 35651584, 0)
P0_5  == Dbl(-53, 33554432, 0)
P0_8  == Dbl(-53, 53687091, 26843546)

\* Request strings: two dates, a date followed by another character, and a
\* date whose month has one digit.
Date20160823  == DateStr(2016, 8, 23)
Date20170823  == DateStr(2017, 8, 23)
Date20170823x == DateStr(2017, 8, 23) \o LowerX
Date2017823   == ZeroPad(2017, 4) \o Hyphen \o ZeroPad(8, 1) \o Hyphen \o ZeroPad(23, 2)

RequestStrings == {Date20160823, Date20170823, Date20170823x, Date2017823}

\* The tables with 1 .. MaxRows rows whose i-th row is reported by the i-th
\* station and has its date, amount and temperature in the given sets.
RECURSIVE TablesOfLen(_, _, _, _)
TablesOfLen(n, dates, prcps, temps) ==
    IF n = 0 THEN {<<>>}
    ELSE {Append(t, Measurement(station_at(n), d, p, x)) :
              t \in TablesOfLen(n - 1, dates, prcps, temps),
              d \in dates, p \in prcps, x \in temps}

Tables(dates, prcps, temps) ==
    UNION {TablesOfLen(n, dates, prcps, temps) : n \in 1 .. MaxRows}

\* BigStations stations reporting on each of the BigDays days up to
\* 2017-08-23, station after station; every amount is 0.5 but the k-th.
BigTable(k) ==
    [i \in 1 .. BigStations * BigDays |->
        Measurement(station_at(((i - 1) \div BigDays) + 1),
                    DateStr(2017, 8, 23 - BigDays + ((i - 1) % BigDays) + 1),
                    IF i = k THEN P0_8 ELSE P0_5,
                    T65)]

(***************************************************************************)
(* The state: the table behind the session, the last request handled and   *)
(* the response it was given.                                              *)
(***************************************************************************)
VARIABLES database, request, response

vars == <<database, request, response>>

NoRequest == [route |-> "", args |-> <<>>]
NoResponse == [mimetype |-> "", template |-> "", args |-> <<>>, json |-> <<>>]

\* Tables of the temperature handlers: only date and tobs are read.
InitTemps ==
    /\ database \in Tables({Date20160823, Date20170823}, {NULL},
                           {NULL, T60_2, T65, T68})
    /\ request = NoRequest
    /\ response = NoResponse

\* Tables of the handlers of the last 365 days: precipitation reads date and
\* prcp, tobs reads date and tobs.
WindowDates == {DateStr(2016, 8, 22), Date20160823, DateStr(2016, 8, 24), Date20170823}

InitWindow ==
    /\ \/ database \in Tables(WindowDates, {NULL, P0_5, P0_8}, {T65})
       \/ database \in Tables(WindowDates, {P0_5}, {NULL, T65})
       \/ \E k \in 1 .. BigStations * BigDays : database = BigTable(k)
    /\ request = NoRequest
    /\ response = NoResponse

\* Tables of the station handler: any station on any row, each station at
\* most once a day.
InitStations ==
    /\ \E n \in 1 .. MaxRows :
         \E st \in [1 .. n -> {STATIONS[1], STATIONS[2], STATIONS[3]}] :
           \E dt \in [1 .. n -> {Date20160823, Date20170823}] :
             /\ \A i, j \in 1 .. n : i # j => <<st[i], dt[i]>> # <<st[j], dt[j]>>
             /\ database = [i \in 1 .. n |-> Measurement(st[i], dt[i], P0_5, T65)]
    /\ request = NoRequest
    /\ response = NoResponse

GET_precipitation ==
    /\ request' = [route |-> "/api/v1.0/precipitation", args |-> <<>>]
    /\ response' = precipitation(database)
    /\ UNCHANGED database

GET_stations ==
    /\ request' = [route |-> "/api/v1.0/stations", args |-> <<>>]
    /\ response' = stations(database)
    /\ UNCHANGED database

GET_tobs ==
    /\ request' = [route |-> "/api/v1.0/tobs", args |-> <<>>]
    /\ response' = tobs(database)
    /\ UNCHANGED database

GET_start ==
    \E start \in RequestStrings :
        /\ request' = [route |-> "/api/v1.0/<start>", args |-> <<start>>]
        /\ response' = calc_temps_start(database, start)
        /\ UNCHANGED database

GET_start_end ==
    \E start \in RequestStrings, end \in RequestStrings :
        /\ request' = [route |-> "/api/v1.0/<start>/<end>", args |-> <<start, end>>]
        /\ response' = calc_temps_start_end(database, start, end)
        /\ UNCHANGED database

NextTemps == GET_start \/ GET_start_end
NextWindow == GET_precipitation \/ GET_tobs
NextStations == GET_stations

SpecTemps == InitTemps /\ [][NextTemps]_vars
SpecWindow == InitWindow /\ [][NextWindow]_vars
SpecStations == InitStations /\ [][NextStations]_vars

(***************************************************************************)
(* Properties.                                                             *)
(***************************************************************************)
IsStart == request.route = "/api/v1.0/<start>"
IsStartEnd == request.route = "/api/v1.0/<start>/<end>"

\* Four digits, hyphen, two digits, hyphen, two digits at the start of s.
CharClass(c) == IF c \in 48 .. 57 THEN "d" ELSE IF c = 45 THEN "-" ELSE "?"

HasDatePrefix(s) ==
    /\ Len(s) >= 10
    /\ [i \in 1 .. 10 |-> CharClass(s[i])]
           = <<"d", "d", "d", "d", "-", "d", "d", "-", "d", "d">>

Names(resp, s) == \E i \in 1 .. Len(resp.args) : resp.args[i] = s

\* A range request that passed the format check, and its range in
\* ascending order (RangeHi is NoEnd for the open range).
Validated ==
    \/ IsStart /\ HasDatePrefix(request.args[1])
    \/ IsStartEnd /\ HasDatePrefix(request.args[1]) /\ HasDatePrefix(request.args[2])

RangeLo ==
    IF IsStartEnd /\ StrLess(request.args[2], request.args[1])
    THEN request.args[2] ELSE request.args[1]

RangeHi ==
    IF IsStart THEN NoEnd
    ELSE IF StrLess(request.args[2], request.args[1])
    THEN request.args[1] ELSE request.args[2]

\* The positions of the rows whose date lies in the range lo .. hi.
InRange(lo, hi) ==
    {i \in 1 .. Len(database) :
        /\ ~StrLess(database[i].date, lo)
        /\ hi # NoEnd => ~StrLess(hi, database[i].date)}

\* The non-NULL temperatures of the rows in the range.
RangeTemps(lo, hi) ==
    {database[i].tobs : i \in {j \in InRange(lo, hi) : database[j].tobs # NULL}}

\* C1: a range request whose start (or end) does not begin with a date is
\* answered with the invalid-format message naming the offending value(s),
\* never with statistics or the no-match message.
C1_InvalidFormatNamed ==
    /\ (IsStart /\ ~HasDatePrefix(request.args[1]))
          => /\ response.mimetype = "text/html"
             /\ response.template = INVALID_START
             /\ Names(response, request.args[1])
    /\ (IsStartEnd /\ (~HasDatePrefix(request.args[1]) \/ ~HasDatePrefix(request.args[2])))
          => /\ response.mimetype = "text/html"
             /\ response.template = INVALID_START_END
             /\ \A i \in {1, 2} :
                    ~HasDatePrefix(request.args[i]) => Names(response, request.args[i])

C1_Witness ==
    /\ IsStartEnd
    /\ HasDatePrefix(request.args[1])
    /\ request.args[2] = Date2017823
    /\ response.template = INVALID_START_END

\* C2: a closed-range request with start > end is answered as the request
\* with the two dates exchanged: the same statistics, taken over the rows
\* dated from end to start, or the same no-match outcome.
C2_SwapInvariant ==
    (IsStartEnd /\ Validated /\ StrLess(request.args[2], request.args[1]))
       => LET a == request.args[1]
              b == request.args[2]
              ordered == calc_temps_start_end(database, b, a)
          IN /\ response.mimetype = ordered.mimetype
             /\ response.template = ordered.template
             /\ response.json = ordered.json
             /\ response.mimetype = "application/json"
                   => /\ response.json[1][1] \in RangeTemps(b, a)
                      /\ response.json[1][3] \in RangeTemps(b, a)
                      /\ \A t \in RangeTemps(b, a) :
                             /\ fl_le(response.json[1][1], t)
                             /\ fl_le(t, response.json[1][3])

C2_Witness ==
    /\ IsStartEnd
    /\ request.args = <<Date20170823x, Date20170823>>
    /\ response.mimetype = "application/json"
    /\ \E i \in 1 .. Len(database) :
           database[i].date = Date20160823 /\ database[i].tobs # NULL

\* C3 as claimed: the aggregation of a validated range is Empty if and only
\* if no row is dated in the range.
C3_EmptyIffNoRowInRange ==
    Validated =>
        (calc_temps(database, RangeLo, RangeHi) = <<>> <=> InRange(RangeLo, RangeHi) = {})

\* C3 as amended: the aggregation of a validated range is Empty if and only
\* if no row dated in the range has a non-NULL temperature.
C3_EmptyIffNoTempInRange ==
    Validated =>
        (calc_temps(database, RangeLo, RangeHi) = <<>> <=> RangeTemps(RangeLo, RangeHi) = {})

C3_Witness ==
    /\ Validated
    /\ InRange(RangeLo, RangeHi) # {}
    /\ RangeTemps(RangeLo, RangeHi) = {}
    /\ response.mimetype = "text/html"

\* C7: a validated request whose aggregation is Empty gets the no-match
\* message naming start (and end); one whose aggregation is not Empty gets
\* the statistics as JSON.
C7_NoMatchOrPayload ==
    Validated =>
        LET result == calc_temps(database, RangeLo, RangeHi)
        IN IF result = <<>>
           THEN /\ response.mimetype = "text/html"
                /\ response.template = (IF IsStart THEN NO_MATCH_START
                                        ELSE NO_MATCH_START_END)
                /\ \A i \in 1 .. Len(request.args) : Names(response, request.args[i])
           ELSE /\ response.mimetype = "application/json"
                /\ response.json = result
                /\ Len(response.json[1]) = 3

C7_Witness ==
    /\ IsStart
    /\ request.args[1] = Date20170823x
    /\ \E i \in 1 .. Len(database) : database[i].tobs # NULL
    /\ response.template = NO_MATCH_START

\* C9 as claimed: a non-empty aggregation has min <= avg <= max.
C9_MinAvgMax ==
    Validated =>
        LET result == calc_temps(database, RangeLo, RangeHi)
        IN result # <<>> =>
              /\ fl_le(result[1][1], result[1][2])
              /\ fl_le(result[1][2], result[1][3])

\* The table without the rows whose temperature is NULL.
WithoutNullTemps == SelectSeq(database, LAMBDA m : m.tobs # NULL)

\* A whole number below 2^40: a few of them add up without rounding.
IsWholeReading(x) == is_whole(x) /\ x.e + 53 <= 40

\* C9 as amended: a non-empty aggregation has min <= max, min and max are
\* the least and the greatest non-NULL temperature in the range, the rows
\* with a NULL temperature change none of the three values, and
\* min <= avg <= max holds when the temperatures in the range are whole
\* numbers, whose sum is exact.
C9_MinMaxAndWholeAvg ==
    Validated =>
        LET result == calc_temps(database, RangeLo, RangeHi)
            temps  == RangeTemps(RangeLo, RangeHi)
        IN result # <<>> =>
              /\ result[1][1] \in temps
              /\ result[1][3] \in temps
              /\ \A t \in temps : fl_le(result[1][1], t) /\ fl_le(t, result[1][3])
              /\ fl_le(result[1][1], result[1][3])
              /\ result = calc_temps(WithoutNullTemps, RangeLo, RangeHi)
              /\ (\A t \in temps : IsWholeReading(t))
                    => /\ fl_le(result[1][1], result[1][2])
                       /\ fl_le(result[1][2], result[1][3])

C9_Witness ==
    /\ Validated
    /\ response.mimetype = "application/json"
    /\ RangeTemps(RangeLo, RangeHi) = {T65, T68}
    /\ \E i \in InRange(RangeLo, RangeHi) : database[i].tobs = NULL
    /\ fl_lt(response.json[1][1], response.json[1][2])
    /\ fl_lt(response.json[1][2], response.json[1][3])

IsPrecipitation == request.route = "/api/v1.0/precipitation"
IsTobs == request.route = "/api/v1.0/tobs"
IsStations == request.route = "/api/v1.0/stations"

\* The items of the served series, and its dates.
Series == response.json.Precipitation
SeriesDates == {Series[i][1] : i \in 1 .. Len(Series)}

\* The latest date of the table and the date 365 days before it.
LatestDate ==
    CHOOSE d \in {database[i].date : i \in 1 .. Len(database)} :
        \A i \in 1 .. Len(database) : ~StrLess(d, database[i].date)

WindowStart ==
    LET t == ord2ymd(ymd2ord(strptime(LatestDate)) - 365)
    IN DateStr(t.year, t.month, t.day)

\* The positions of the rows dated on or after WindowStart, and of the rows
\* the handlers fetch: those not below the bound value of last_year.
OnOrAfterWindowStart ==
    {i \in 1 .. Len(database) : ~StrLess(database[i].date, WindowStart)}

Fetched ==
    LET last_year == last_year_of(LatestDate)
    IN {i \in 1 .. Len(database) : ~StrLess(database[i].date, last_year)}

\* The position of the last row with date d among the positions in rows.
LastOf(rows, d) ==
    CHOOSE i \in rows :
        /\ database[i].date = d
        /\ \A j \in rows : database[j].date = d => j <= i

\* The amount p as it is served when the rows fetched are those at the
\* positions rows: None becomes NaN unless every fetched amount is None.
AsServed(rows, p) ==
    IF p = NULL /\ (\E k \in rows : database[k].prcp # NULL) THEN NaN ELSE p

\* C4: the precipitation series is strictly ascending by date and has
\* exactly one entry for every date of the fetched rows.
C4_SeriesSortedOnePerDate ==
    IsPrecipitation =>
        LET dates == {database[i].date : i \in Fetched}
        IN /\ \A i \in 1 .. Len(Series) - 1 : StrLess(Series[i][1], Series[i + 1][1])
           /\ SeriesDates = dates
           /\ Len(Series) = Cardinality(dates)

C4_Witness ==
    /\ IsPrecipitation
    /\ Len(Series) = 2
    /\ Len(database) = 3
    /\ Fetched = {1, 2, 3}
    /\ StrLess(database[2].date, database[1].date)
    /\ database[3].date = database[1].date

\* C5 as claimed: the series has an entry for exactly the dates of the rows
\* dated on or after latest - 365 days, that day included.
C5_WindowInclusive ==
    IsPrecipitation =>
        /\ SubSeq(last_year_of(LatestDate), 1, 10) = WindowStart
        /\ SeriesDates = {database[i].date : i \in OnOrAfterWindowStart}

\* C6 as claimed: the amount kept for a date is that of the fetched row the
\* table returns last for that date, whatever the sort does to the rows
\* before the dict is built.
C6_LastWriteWins ==
    IsPrecipitation =>
        LET rows == Fetched
        IN \A i \in 1 .. Len(Series) :
               Series[i][2] = AsServed(rows, database[LastOf(rows, Series[i][1])].prcp)

\* C8 as claimed: the tobs list has one reading, NULL or not, for every row
\* dated on or after latest - 365 days, in the order of the table.
C8_TobsOfWindow ==
    IsTobs =>
        LET rows == SelectSeq(database, LAMBDA m : ~StrLess(m.date, WindowStart))
        IN response.json = [i \in 1 .. Len(rows) |-> <<rows[i].tobs>>]

\* C10: the station list has every station of the table exactly once.
C10_DistinctStations ==
    IsStations =>
        LET names == {database[i].station : i \in 1 .. Len(database)}
        IN /\ {response.json[i][1] : i \in 1 .. Len(response.json)} = names
           /\ Len(response.json) = Cardinality(names)
           /\ \A i \in 1 .. Len(response.json) : Len(response.json[i]) = 1

C10_Witness ==
    /\ IsStations
    /\ Len(database) = 3
    /\ Cardinality({database[i].station : i \in 1 .. Len(database)}) = 2
    /\ Len(response.json) = 2

====
